---- MODULE Spec2Model ----
(***************************************************************************)
(* A model of align-rs: the MSA container (src/src/msa.rs) and the CLUSTAL *)
(* reader (src/src/reader.rs).                                             *)
(*                                                                         *)
(* A string is a sequence of one-character strings; the source only uses   *)
(* ASCII, so bytes and chars coincide.  A map (HashMap<String,String>) is  *)
(* a set of <<key, value>> pairs with at most one pair per key.            *)
(***************************************************************************)
EXTENDS Integers, Sequences, FiniteSets, TLC

VARIABLES
    msa,            \* the MSA under construction: records, annotations, column_annotations
    pc,             \* position in read_clustal, or "api" when MSA is driven directly
    consumed,       \* the lines read_line has returned so far (history of the source)
    eof,            \* the source is exhausted: every further read_line returns 0 bytes
    buf,            \* reader.rs `buf`
    start,          \* reader.rs `start` at the end of the last loop iteration
    end,            \* reader.rs `end` at the end of the last loop iteration
    consensus_idx,  \* reader.rs `consensus_idx`
    outcome,        \* "Running" | "Ok" | "Err" | "Panic": how read_clustal ended
    cause,          \* which statement ended read_clustal ("" while running)
    calls,          \* history of the MSA::push calls made directly: for each, the
                    \* record, the MSA before and after, and the Result's variant
    annotated,      \* history of read_clustal's add_column_annotation calls: the
                    \* value of consensus_idx each one was keyed with
    rec,            \* a record.rs Record driven directly
    recCalls        \* history of the calls made on rec: for each, the method, the
                    \* Record before and after

vars == <<msa, pc, consumed, eof, buf, start, end, consensus_idx, outcome, cause,
          calls, annotated, rec, recCalls>>

(***************************************************************************)
(* Bounds of the model.                                                    *)
(***************************************************************************)
\* the longest source the reader is fed, in lines (header included)
MaxLines == 6
\* the number of MSA::push calls the direct driver makes
MaxPush == 3
\* the number of calls the direct driver makes on a record.rs Record
MaxRecordCalls == 3

(***************************************************************************)
(* String helpers (Rust std::str).                                         *)
(***************************************************************************)
SP == " "
NL == "\n"

\* str::starts_with
starts_with(s, p) == Len(s) >= Len(p) /\ SubSeq(s, 1, Len(p)) = p

\* the slice s[from..] with a 0-based byte offset
slice_from(s, from) == SubSeq(s, from + 1, Len(s))

\* the slice s[from..to] with 0-based byte offsets
slice(s, from, to) == SubSeq(s, from + 1, to)

RECURSIVE trim_start_matches(_, _)
trim_start_matches(s, c) ==
    IF s # <<>> /\ Head(s) = c THEN trim_start_matches(Tail(s), c) ELSE s

RECURSIVE trim_end_matches(_, _)
trim_end_matches(s, c) ==
    IF s # <<>> /\ s[Len(s)] = c
    THEN trim_end_matches(SubSeq(s, 1, Len(s) - 1), c)
    ELSE s

\* str::split(c): the fields between the occurrences of c; consecutive
\* separators give empty fields, and the result is never empty
RECURSIVE split_acc(_, _, _)
split_acc(s, c, cur) ==
    IF s = <<>> THEN <<cur>>
    ELSE IF Head(s) = c THEN <<cur>> \o split_acc(Tail(s), c, <<>>)
    ELSE split_acc(Tail(s), c, Append(cur, Head(s)))

split(s, c) == split_acc(s, c, <<>>)

\* str::find(needle): the 0-based offset of the first occurrence, -1 for None
find(hay, needle) ==
    LET hits == {i \in 0..(Len(hay) - Len(needle)) :
                    SubSeq(hay, i + 1, i + Len(needle)) = needle}
    IN IF hits = {} THEN -1 ELSE CHOOSE i \in hits : \A j \in hits : i <= j

\* Option<usize>::unwrap_or
unwrap_or(opt, dflt) == IF opt = -1 THEN dflt ELSE opt

DigitChar == <<"0", "1", "2", "3", "4", "5", "6", "7", "8", "9">>
Digits == {DigitChar[i] : i \in 1..10}

\* i32::to_string for a non-negative value
RECURSIVE to_string(_)
to_string(n) ==
    IF n < 10 THEN <<DigitChar[n + 1]>>
    ELSE to_string(n \div 10) \o <<DigitChar[(n % 10) + 1]>>

(***************************************************************************)
(* Maps.                                                                   *)
(***************************************************************************)
EmptyMap == {}

\* HashMap::insert: last write wins
map_insert(m, k, v) == {p \in m : p[1] # k} \cup {<<k, v>>}

map_has(m, k) == \E p \in m : p[1] = k

map_get(m, k) == (CHOOSE p \in m : p[1] = k)[2]

(***************************************************************************)
(* src/src/msa.rs                                                          *)
(***************************************************************************)
\* noodles fasta::Record::new(Definition::new(name, None), Sequence::from(seq))
Record_new(name, seq) == [name |-> name, sequence |-> seq]

\* MSA::new
MSA_new(records, annotations, column_annotations) ==
    [records |-> records,
     annotations |-> annotations,
     column_annotations |-> column_annotations]

\* #[derive(Default)]
MSA_default == MSA_new(<<>>, EmptyMap, EmptyMap)

\* MSA::len
len(m) == Len(m.records)

\* MSA::is_empty
is_empty(m) == m.records = <<>>

\* MSA::alignment_len
alignment_len(m) ==
    IF is_empty(m) THEN 0 ELSE Len(m.records[1].sequence)

\* MSA::get_ids
get_ids(m) == [i \in 1..Len(m.records) |-> m.records[i].name]

contains(v, x) == \E i \in 1..Len(v) : v[i] = x

\* mutants of MSA::push: one check or the frame dropped
push_no_length_check(m, record) ==
    IF ~is_empty(m) /\ contains(get_ids(m), record.name)
    THEN [msa |-> m, result |-> "Err"]
    ELSE [msa |-> [m EXCEPT !.records = Append(@, record)], result |-> "Ok"]

push_no_id_check(m, record) ==
    IF ~is_empty(m) /\ Len(record.sequence) # alignment_len(m)
    THEN [msa |-> m, result |-> "Err"]
    ELSE [msa |-> [m EXCEPT !.records = Append(@, record)], result |-> "Ok"]

push_err_stores(m, record) ==
    IF ~is_empty(m) /\ Len(record.sequence) # alignment_len(m)
    THEN [msa |-> [m EXCEPT !.records = Append(@, record)], result |-> "Err"]
    ELSE IF ~is_empty(m) /\ contains(get_ids(m), record.name)
    THEN [msa |-> m, result |-> "Err"]
    ELSE [msa |-> [m EXCEPT !.records = Append(@, record)], result |-> "Ok"]

\* mutant of MSA::push: the record stored at the front
push_front(m, record) ==
    IF ~is_empty(m) /\ Len(record.sequence) # alignment_len(m)
    THEN [msa |-> m, result |-> "Err"]
    ELSE IF ~is_empty(m) /\ contains(get_ids(m), record.name)
    THEN [msa |-> m, result |-> "Err"]
    ELSE [msa |-> [m EXCEPT !.records = <<record>> \o @], result |-> "Ok"]

\* mutant of MSA::push: the length compared on an empty MSA too
push_checks_when_empty(m, record) ==
    IF Len(record.sequence) # alignment_len(m)
    THEN [msa |-> m, result |-> "Err"]
    ELSE IF ~is_empty(m) /\ contains(get_ids(m), record.name)
    THEN [msa |-> m, result |-> "Err"]
    ELSE [msa |-> [m EXCEPT !.records = Append(@, record)], result |-> "Ok"]

\* MSA::push: the MSA after the call and the Result's variant
push(m, record) ==
    IF ~is_empty(m) /\ Len(record.sequence) # alignment_len(m)
    THEN [msa |-> m, result |-> "Err"]
    ELSE IF ~is_empty(m) /\ contains(get_ids(m), record.name)
    THEN [msa |-> m, result |-> "Err"]
    ELSE [msa |-> [m EXCEPT !.records = Append(@, record)], result |-> "Ok"]

\* MSA::add_record as reader.rs calls it.  msa.rs defines no method of that
\* name; its only method that stores a record is push, and the message of the
\* call's expect ("sequence should not already exists and should have the same
\* length as existing sequences") names exactly push's two errors.
add_record(m, record) == push(m, record)

\* MSA::add_annotation as reader.rs calls it: last write wins
add_annotation(m, key, value) ==
    [m EXCEPT !.annotations = map_insert(@, key, value)]

\* MSA::add_column_annotation as reader.rs calls it: the fragment is
\* concatenated onto the named entry, which starts empty
add_column_annotation(m, key, fragment) ==
    [m EXCEPT !.column_annotations =
        map_insert(@, key,
                   (IF map_has(@, key) THEN map_get(@, key) ELSE <<>>) \o fragment)]

(***************************************************************************)
(* src/src/record.rs                                                       *)
(***************************************************************************)
\* Record::new
Record_rs_new(id, sequence) ==
    [id |-> id, sequence |-> sequence, annotation |-> EmptyMap]

\* #[derive(Default)]
Record_rs_default == Record_rs_new(<<>>, <<>>)

\* Record::push_seq
push_seq(r, string) == [r EXCEPT !.sequence = @ \o string]

\* mutant of Record_is_empty: either field empty
Record_is_empty_either(r) == r.id = <<>> \/ r.sequence = <<>>

\* Record::is_empty
Record_is_empty(r) == r.id = <<>> /\ r.sequence = <<>>

\* Record::push_record
push_record(r, id, seq) ==
    IF Record_is_empty(r)
    THEN [r EXCEPT !.id = id, !.sequence = seq]
    ELSE [r EXCEPT !.sequence = @ \o seq]

(***************************************************************************)
(* src/src/reader.rs                                                       *)
(***************************************************************************)
CLUSTAL == <<"C", "L", "U", "S", "T", "A", "L">>
PROBCONS == <<"P", "R", "O", "B", "C", "O", "N", "S">>
MUSCLE == <<"M", "U", "S", "C", "L", "E">>
MSAPROBS == <<"M", "S", "A", "P", "R", "O", "B", "S">>
Kalign == <<"K", "a", "l", "i", "g", "n">>

known_header == <<CLUSTAL, PROBCONS, MUSCLE, MSAPROBS, Kalign>>

\* mutant of header_matches: the prefix test dropped
header_matches_anything(b) == TRUE

\* `if let Some(header) = known_header.into_iter().next()` binds the first
\* element of the array; the test is buf.starts_with(header)
header_matches(b) == starts_with(b, Head(known_header))

\* the header bound by the `if let`
bound_header == Head(known_header)

\* Regex (\d+(?:\.\d+)+): the 1-based index of the last digit of the run of
\* digits that starts at i
RECURSIVE digits_end(_, _)
digits_end(s, i) ==
    IF i + 1 <= Len(s) /\ s[i + 1] \in Digits THEN digits_end(s, i + 1) ELSE i

\* the end of the greedy repetition (?:\.\d+)* that follows position j
RECURSIVE groups_end(_, _)
groups_end(s, j) ==
    IF j + 2 <= Len(s) /\ s[j + 1] = "." /\ s[j + 2] \in Digits
    THEN groups_end(s, digits_end(s, j + 2))
    ELSE j

\* the end of the match that starts at i, 0 when there is none
match_end(s, i) ==
    IF s[i] \notin Digits THEN 0
    ELSE LET j == digits_end(s, i)
             k == groups_end(s, j)
         IN IF k > j THEN k ELSE 0

\* version_re.captures(&buf): group 1 of the leftmost match, as a set holding
\* it (the empty set for None)
version_captures(s) ==
    LET starts == {i \in 1..Len(s) : match_end(s, i) > 0}
    IN IF starts = {} THEN {}
       ELSE LET i == CHOOSE x \in starts : \A y \in starts : x <= y
            IN {SubSeq(s, i, match_end(s, i))}

\* the condition of the while loop at line 65
only_newline(b) ==
    trim_end_matches(trim_start_matches(b, SP), SP) = <<NL>>

\* the condition at lines 76-77; buf is not empty (nth(0) was unwrapped)
is_sequence_line(b) ==
    /\ b[1] # SP
    /\ trim_end_matches(trim_start_matches(b, NL), NL) # <<>>

\* `fields` at line 80
fields_of(b) == split(trim_end_matches(b, SP), SP)

\* `start` at line 82, fields being 0-based in the source
start_of(b, fields) ==
    Len(fields[1])
        + unwrap_or(find(slice_from(b, Len(fields[1])), fields[2]), 0)

(***************************************************************************)
(* The source read line by line.  A line ends with its terminator, except  *)
(* possibly the last line of the source.                                   *)
(***************************************************************************)
HeaderLines ==
    { CLUSTAL \o <<NL>>,
      CLUSTAL \o <<SP, "W", SP, "1", ".", "8", "1", NL>>,
      CLUSTAL \o <<SP, "2", ".", "0", ".", "1", "2", SP, "7", ".", NL>>,
      PROBCONS \o <<SP, "1", ".", "1", NL>>,
      MUSCLE \o <<SP, "3", ".", "8", NL>>,
      MSAPROBS \o <<NL>>,
      Kalign \o <<SP, "2", NL>>,
      <<"c", "l", "u", "s", "t", "a", "l", NL>>,
      <<"F", "O", "O", SP, "1", ".", "0", NL>>,
      <<NL>> }

BodyLines ==
    { <<NL>>,
      <<"a", SP, "A", "C", NL>>,
      <<"a", SP, "G", "T", NL>>,
      <<"b", "b", SP, "A", "C", NL>>,
      <<"b", "b", SP, SP, "G", "T", NL>>,
      <<"a", SP, SP, SP, "A", "C", NL>>,
      <<"b", "b", SP, "A", NL>>,
      <<"a", SP, "G", "T">>,
      <<SP, SP, "*", "*", NL>>,
      <<SP, SP, SP, SP, "*", NL>>,
      <<"a", NL>> }

\* what one read_line call can return: a line of the source, or nothing at
\* the end of the source
Reads(candidates) ==
    IF eof THEN {<<>>}
    ELSE {<<>>} \cup (IF Len(consumed) < MaxLines THEN candidates ELSE {})

\* the effect of a read_line call that returned r on the source
Advance(r) ==
    /\ consumed' = IF r = <<>> THEN consumed ELSE Append(consumed, r)
    /\ eof' = (r = <<>> \/ r[Len(r)] # NL)

\* read_clustal has read nothing: an untouched source, an empty buf, and the
\* initial values of the locals (consensus_idx = 1 at line 70)
ReaderIdle ==
    /\ consumed = <<>>
    /\ eof = FALSE
    /\ buf = <<>>
    /\ start = 0
    /\ end = 0
    /\ consensus_idx = 1
    /\ outcome = "Running"
    /\ cause = ""
    /\ annotated = <<>>

Init ==
    /\ pc = "header"
    /\ msa = MSA_default
    /\ calls = <<>>
    /\ rec = Record_rs_default
    /\ recCalls = <<>>
    /\ ReaderIdle

\* lines 36-60: the first line, the program name and the version
ReadHeader ==
    /\ pc = "header"
    /\ \E r \in Reads(HeaderLines) :
        /\ Advance(r)
        /\ buf' = r
        /\ IF header_matches(r)
           THEN LET m1 == add_annotation(msa, "program", bound_header)
                    v == version_captures(r)
                IN /\ msa' = IF v = {} THEN m1
                             ELSE add_annotation(m1, "version", CHOOSE x \in v : TRUE)
                   /\ pc' = "after_header"
                   /\ UNCHANGED <<outcome, cause>>
           ELSE /\ outcome' = "Err"
                /\ cause' = "header"
                /\ pc' = "failed"
                /\ UNCHANGED msa
    /\ UNCHANGED <<start, end, consensus_idx, calls, annotated, rec, recCalls>>

\* lines 63-65: buf.clear(), one read_line, the first test of the while loop
ReadAfterHeader ==
    /\ pc = "after_header"
    /\ \E r \in Reads(BodyLines) :
        /\ Advance(r)
        /\ buf' = r
        /\ pc' = IF only_newline(r) THEN "skip" ELSE "loop"
    /\ UNCHANGED <<msa, start, end, consensus_idx, outcome, cause, calls, annotated, rec, recCalls>>

\* lines 65-67: one turn of the while loop; read_line appends to buf
SkipBlank ==
    /\ pc = "skip"
    /\ \E r \in Reads(BodyLines) :
        /\ Advance(r)
        /\ buf' = buf \o r
        /\ pc' = IF only_newline(buf \o r) THEN "skip" ELSE "loop"
    /\ UNCHANGED <<msa, start, end, consensus_idx, outcome, cause, calls, annotated, rec, recCalls>>

\* mutant of LoopEndOfInput: the end of the source ends the loop with Ok(msa)
LoopEndOfInput_returns_ok ==
    /\ pc = "loop"
    /\ \E r \in Reads(BodyLines) :
        /\ r = <<>>
        /\ Advance(r)
        /\ buf' = r
    /\ start' = 0
    /\ end' = 0
    /\ outcome' = "Ok"
    /\ cause' = "end_of_input"
    /\ pc' = "done"
    /\ UNCHANGED <<msa, consensus_idx, calls, annotated, rec, recCalls>>

\* lines 72-76: the read of a loop turn returned nothing, and
\* buf.chars().nth(0).unwrap() panics
LoopEndOfInput ==
    /\ pc = "loop"
    /\ \E r \in Reads(BodyLines) :
        /\ r = <<>>
        /\ Advance(r)
        /\ buf' = r
    /\ start' = 0
    /\ end' = 0
    /\ outcome' = "Panic"
    /\ cause' = "unwrap_none"
    /\ pc' = "panicked"
    /\ UNCHANGED <<msa, consensus_idx, calls, annotated, rec, recCalls>>

\* lines 72-88, 96: a loop turn on a line taken as a sequence line
LoopSequenceLine ==
    /\ pc = "loop"
    /\ \E r \in Reads(BodyLines) :
        /\ r # <<>>
        /\ is_sequence_line(r)
        /\ Advance(r)
        /\ buf' = r
        /\ LET fields == fields_of(r) IN
           IF Len(fields) < 2
           THEN \* fields[1] is out of bounds
                /\ start' = 0
                /\ end' = 0
                /\ outcome' = "Panic"
                /\ cause' = "index"
                /\ pc' = "panicked"
                /\ UNCHANGED <<msa, consensus_idx>>
           ELSE LET s == start_of(r, fields)
                    e == s + Len(fields[2])
                    res == add_record(msa, Record_new(fields[1], fields[2]))
                IN /\ start' = s
                   /\ end' = e
                   /\ IF res.result = "Err"
                      THEN \* the expect on add_record's Result
                           /\ outcome' = "Panic"
                           /\ cause' = "expect_add_record"
                           /\ pc' = "panicked"
                           /\ UNCHANGED <<msa, consensus_idx>>
                      ELSE /\ msa' = res.msa
                           /\ consensus_idx' = consensus_idx + 1
                           /\ UNCHANGED <<outcome, cause, pc>>
    /\ UNCHANGED <<calls, annotated, rec, recCalls>>

\* mutant of LoopColumnAnnotation: consensus_idx not advanced
LoopColumnAnnotation_same_key ==
    /\ pc = "loop"
    /\ \E r \in Reads(BodyLines) :
        /\ r # <<>>
        /\ ~is_sequence_line(r)
        /\ r[1] # SP
        /\ Advance(r)
        /\ buf' = r
        /\ msa' = add_column_annotation(msa, to_string(consensus_idx), slice(r, 0, 0))
    /\ annotated' = Append(annotated, consensus_idx)
    /\ start' = 0
    /\ end' = 0
    /\ UNCHANGED <<consensus_idx, pc, outcome, cause, calls, rec, recCalls>>

\* lines 72-75, 89-91, 96: a loop turn on a line that does not start with a
\* space and is not a sequence line; start and end were reset to 0 at the top
\* of the turn
LoopColumnAnnotation ==
    /\ pc = "loop"
    /\ \E r \in Reads(BodyLines) :
        /\ r # <<>>
        /\ ~is_sequence_line(r)
        /\ r[1] # SP
        /\ Advance(r)
        /\ buf' = r
        /\ msa' = add_column_annotation(msa, to_string(consensus_idx), slice(r, 0, 0))
    /\ annotated' = Append(annotated, consensus_idx)
    /\ start' = 0
    /\ end' = 0
    /\ consensus_idx' = consensus_idx + 1
    /\ UNCHANGED <<pc, outcome, cause, calls, rec, recCalls>>

\* lines 72-75, 92-94, 100: a loop turn on a line that starts with a space:
\* break, and Ok(msa)
LoopBreak ==
    /\ pc = "loop"
    /\ \E r \in Reads(BodyLines) :
        /\ r # <<>>
        /\ r[1] = SP
        /\ Advance(r)
        /\ buf' = r
    /\ start' = 0
    /\ end' = 0
    /\ outcome' = "Ok"
    /\ cause' = "break"
    /\ pc' = "done"
    /\ UNCHANGED <<msa, consensus_idx, calls, annotated, rec, recCalls>>

Next ==
    \/ ReadHeader
    \/ ReadAfterHeader
    \/ SkipBlank
    \/ LoopEndOfInput
    \/ LoopSequenceLine
    \/ LoopColumnAnnotation
    \/ LoopBreak

Spec == Init /\ [][Next]_vars

(***************************************************************************)
(* MSA driven directly: an empty MSA and a sequence of MSA::push calls.    *)
(***************************************************************************)
PushNames == {<<"a">>, <<"b">>, <<"a", "b">>}
PushSeqs == {<<>>, <<"A">>, <<"C">>, <<"A", "C">>, <<"G", "T">>}
PushRecords == {Record_new(n, q) : n \in PushNames, q \in PushSeqs}

\* the annotation maps an empty MSA may carry (MSA::new with no records)
PushAnnotations == {EmptyMap, {<<"author", <<"J">>>>}}
PushColumnAnnotations == {EmptyMap, {<<<<"1">>, <<"*">>>>}}

InitPush ==
    /\ pc = "api"
    /\ msa \in {MSA_new(<<>>, a, c) : a \in PushAnnotations, c \in PushColumnAnnotations}
    /\ calls = <<>>
    /\ rec = Record_rs_default
    /\ recCalls = <<>>
    /\ ReaderIdle

\* one call msa.push(record)
Push ==
    /\ pc = "api"
    /\ Len(calls) < MaxPush
    /\ \E record \in PushRecords :
        LET r == push(msa, record) IN
        /\ msa' = r.msa
        /\ calls' = Append(calls, [record |-> record, before |-> msa,
                                   after |-> r.msa, result |-> r.result])
    /\ UNCHANGED <<pc, consumed, eof, buf, start, end, consensus_idx, outcome, cause,
                   annotated, rec, recCalls>>

NextPush == Push

SpecPush == InitPush /\ [][NextPush]_vars

(***************************************************************************)
(* Claims about MSA::push.                                                 *)
(***************************************************************************)
\* C1: after any sequence of MSA::push calls on an empty MSA, every stored
\* record's sequence is as long as alignment_len(), the length of the first
\* record's sequence.
C1_UniformLength ==
    \A i \in 1..Len(msa.records) :
        Len(msa.records[i].sequence) = alignment_len(msa)

\* C1 witness: two records stored and a push of another length rejected
C1_Witness ==
    /\ pc = "api"
    /\ len(msa) >= 2
    /\ alignment_len(msa) > 0
    /\ \E k \in 1..Len(calls) :
        /\ calls[k].result = "Err"
        /\ ~is_empty(calls[k].before)
        /\ Len(calls[k].record.sequence) # alignment_len(calls[k].before)

\* C2: after any sequence of MSA::push calls on an empty MSA no two stored
\* records have the same id, and a push whose record name is the name of a
\* record already stored returns Err.
C2_UniqueIds ==
    /\ \A i, j \in 1..Len(msa.records) :
        i # j => msa.records[i].name # msa.records[j].name
    /\ \A k \in 1..Len(calls) :
        contains(get_ids(calls[k].before), calls[k].record.name)
            => calls[k].result = "Err"

\* C2 witness: a push of the right length whose name is already stored was rejected
C2_Witness ==
    /\ pc = "api"
    /\ len(msa) >= 2
    /\ \E k \in 1..Len(calls) :
        /\ calls[k].result = "Err"
        /\ contains(get_ids(calls[k].before), calls[k].record.name)
        /\ Len(calls[k].record.sequence) = alignment_len(calls[k].before)

\* C3: an MSA::push call that returns Err leaves the records, the annotations
\* and the column annotations as they were before the call.
C3_ErrLeavesUnchanged ==
    \A k \in 1..Len(calls) :
        calls[k].result = "Err" =>
            /\ calls[k].after.records = calls[k].before.records
            /\ calls[k].after.annotations = calls[k].before.annotations
            /\ calls[k].after.column_annotations = calls[k].before.column_annotations
            /\ len(calls[k].after) = len(calls[k].before)
            /\ alignment_len(calls[k].after) = alignment_len(calls[k].before)

\* C3 witness: both kinds of Err happened on an MSA that holds annotations
C3_Witness ==
    /\ pc = "api"
    /\ msa.annotations # EmptyMap
    /\ msa.column_annotations # EmptyMap
    /\ \E k \in 1..Len(calls) :
        /\ calls[k].result = "Err"
        /\ Len(calls[k].record.sequence) # alignment_len(calls[k].before)
    /\ \E k \in 1..Len(calls) :
        /\ calls[k].result = "Err"
        /\ Len(calls[k].record.sequence) = alignment_len(calls[k].before)

(***************************************************************************)
(* The format as the claims about read_clustal describe it.                *)
(***************************************************************************)
FirstLine == IF consumed = <<>> THEN <<>> ELSE consumed[1]

Recognized(l) == \E i \in 1..Len(known_header) : starts_with(l, known_header[i])

StripTerminator(l) ==
    IF l # <<>> /\ l[Len(l)] = NL THEN SubSeq(l, 1, Len(l) - 1) ELSE l

\* the non-empty whitespace-delimited fields of a line
Words(l) == SelectSeq(split(StripTerminator(l), SP), LAMBDA f : f # <<>>)

IsBlankLine(l) == StripTerminator(l) = <<>>

IsIndented(l) == l # <<>> /\ l[1] = SP

IsSequenceLine(l) == ~IsBlankLine(l) /\ ~IsIndented(l) /\ Len(Words(l)) = 2

IsConsensusLine(l) == IsIndented(l) /\ Words(l) # <<>>

IsMalformedLine(l) == ~IsBlankLine(l) /\ ~IsIndented(l) /\ Len(Words(l)) # 2

LineId(l) == Words(l)[1]

LineFragment(l) == Words(l)[2]

\* the offsets [FragmentStart, FragmentEnd) of the residue fragment in a sequence line
FragmentStart(l) ==
    Len(LineId(l)) + find(slice_from(StripTerminator(l), Len(LineId(l))), LineFragment(l))

FragmentEnd(l) == FragmentStart(l) + Len(LineFragment(l))

\* the source so far is a header, the two empty lines, and at least n lines of blocks
BlocksFromFour(n) ==
    /\ Len(consumed) >= 3 + n
    /\ Recognized(consumed[1])
    /\ consumed[2] = <<NL>>
    /\ consumed[3] = <<NL>>

LastLine == consumed[Len(consumed)]

Ended == outcome # "Running"

\* the sequences stored under an id
SequencesOf(id) ==
    {msa.records[i].sequence : i \in {j \in 1..Len(msa.records) : msa.records[j].name = id}}

(***************************************************************************)
(* Claims about read_clustal.                                              *)
(***************************************************************************)
\* C4: a first line that starts with any of the recognized program tokens
\* (CLUSTAL, PROBCONS, MUSCLE, MSAPROBS, Kalign) is accepted, and
\* annotations["program"] is the token that matched.
C4_EveryTokenAccepted ==
    \A i \in 1..Len(known_header) :
        (pc # "header" /\ starts_with(FirstLine, known_header[i])) =>
            /\ outcome # "Err"
            /\ map_has(msa.annotations, "program")
            /\ map_get(msa.annotations, "program") = known_header[i]

\* C5: a first line that starts with no recognized program token makes
\* read_clustal return Err, with nothing added to the alignment and no
\* further line read.
C5_HeaderRejected ==
    (pc # "header" /\ ~Recognized(FirstLine)) =>
        /\ outcome = "Err"
        /\ pc = "failed"
        /\ msa = MSA_default
        /\ Len(consumed) <= 1

\* C5 witness: a first line with a version but no recognized token was rejected
C5_Witness ==
    /\ pc = "failed"
    /\ outcome = "Err"
    /\ consumed # <<>>
    /\ ~Recognized(consumed[1])
    /\ version_captures(consumed[1]) # {}

\* C6: when two blank-separated blocks each carry a sequence line for the
\* same id, with fragments f1 then f2, the parse ends without error and the
\* record of that id has the sequence f1 followed by f2.
C6_CrossBlockStitching ==
    (/\ Ended
     /\ BlocksFromFour(3)
     /\ Len(consumed) = 6
     /\ IsSequenceLine(consumed[4])
     /\ IsBlankLine(consumed[5])
     /\ IsSequenceLine(consumed[6])
     /\ LineId(consumed[4]) = LineId(consumed[6])
     /\ Len(LineFragment(consumed[4])) = Len(LineFragment(consumed[6])))
    => /\ outcome = "Ok"
       /\ SequencesOf(LineId(consumed[4]))
            = {LineFragment(consumed[4]) \o LineFragment(consumed[6])}

\* C7: a consensus line that follows a sequence line of a block appends to
\* the column annotations exactly its characters at the offsets [start,end)
\* of the residue fragment of that sequence line.
C7_ConsensusSlice ==
    (/\ BlocksFromFour(2)
     /\ Len(consumed) = 5
     /\ IsSequenceLine(consumed[4])
     /\ IsConsensusLine(consumed[5])
     /\ Len(consumed[5]) >= FragmentEnd(consumed[4]))
    => \E p \in msa.column_annotations :
          p[2] = slice(consumed[5], FragmentStart(consumed[4]), FragmentEnd(consumed[4]))

\* the sequence lines of the source have pairwise distinct ids and fragments
\* of one width, and no line is malformed
WellFormedBody ==
    /\ \A i \in 2..Len(consumed) : ~IsMalformedLine(consumed[i])
    /\ \A i, j \in 2..Len(consumed) :
        (IsSequenceLine(consumed[i]) /\ IsSequenceLine(consumed[j]) /\ i # j) =>
            /\ LineId(consumed[i]) # LineId(consumed[j])
            /\ Len(LineFragment(consumed[i])) = Len(LineFragment(consumed[j]))

\* C8: when the source is exhausted after a recognized header and zero or
\* more well-formed lines, read_clustal ends in Done: it returns Ok.
C8_EndOfInputDone ==
    (Ended /\ eof /\ Recognized(FirstLine) /\ WellFormedBody) =>
        /\ outcome = "Ok"
        /\ pc = "done"

\* the last line is a sequence line whose record the records of the earlier
\* sequence lines rule out: same id, or a fragment of another length
LastLineCannotBeAdded ==
    /\ BlocksFromFour(2)
    /\ IsSequenceLine(LastLine)
    /\ \E i \in 4..(Len(consumed) - 1) :
        /\ IsSequenceLine(consumed[i])
        /\ \/ LineId(consumed[i]) = LineId(LastLine)
           \/ Len(LineFragment(consumed[i])) # Len(LineFragment(LastLine))

\* C9: when adding the record of a sequence line fails (length mismatch or
\* duplicate id), read_clustal stops at that line and ends by returning an
\* error value to its caller, never in any other way.
C9_AddFailureReturnsErr ==
    (Ended /\ LastLineCannotBeAdded) => (outcome = "Err" /\ pc = "failed")

\* C10: a non-blank line that does not start with whitespace and does not
\* split into exactly two fields makes read_clustal return an error.
C10_MalformedLineErr ==
    (Ended /\ BlocksFromFour(1) /\ IsMalformedLine(LastLine)) => outcome = "Err"

\* C11: a sequence line made of an id, one or more padding spaces, a residue
\* fragment and the line terminator adds a record with that id whose sequence
\* is exactly the residue fragment: no padding, no terminator, never empty.
C11_FragmentExact ==
    (/\ BlocksFromFour(1)
     /\ Len(consumed) = 4
     /\ IsSequenceLine(consumed[4])
     /\ LastLine[Len(LastLine)] = NL)
    => /\ outcome = "Running"
       /\ msa.records = <<Record_new(LineId(consumed[4]), LineFragment(consumed[4]))>>

\* a dotted numeric version: digits, then one or more groups of '.' and digits
IsVersionText(w) ==
    /\ Len(w) >= 3
    /\ \A i \in 1..Len(w) : w[i] \in Digits \cup {"."}
    /\ w[1] \in Digits
    /\ w[Len(w)] \in Digits
    /\ \E i \in 1..Len(w) : w[i] = "."
    /\ \A i \in 1..(Len(w) - 1) : ~(w[i] = "." /\ w[i + 1] = ".")

\* the places <<i, j>> of a line where a dotted numeric version stands
VersionPlaces(l) ==
    {p \in (1..Len(l)) \X (1..Len(l)) :
        p[1] <= p[2] /\ IsVersionText(SubSeq(l, p[1], p[2]))}

\* the first match on the line: the leftmost place, taken as far as it goes
FirstVersion(l) ==
    LET p == CHOOSE p \in VersionPlaces(l) :
                \A q \in VersionPlaces(l) :
                    p[1] < q[1] \/ (p[1] = q[1] /\ p[2] >= q[2])
    IN SubSeq(l, p[1], p[2])

\* what the version step is to leave in the annotations for a header line l
VersionStored(l) ==
    IF VersionPlaces(l) = {}
    THEN ~map_has(msa.annotations, "version")
    ELSE /\ map_has(msa.annotations, "version")
         /\ map_get(msa.annotations, "version") = FirstVersion(l)

\* C12: once the header line is read, annotations["version"] is the first
\* dotted numeric version on it; when the line holds none, no version entry
\* is stored and the parse has not failed.
C12_VersionExtracted ==
    (pc # "header" /\ Recognized(FirstLine)) =>
        /\ VersionStored(FirstLine)
        /\ outcome # "Err"

\* The version step alone: right after a header line that the program-name
\* step let through, the stored version is the first dotted numeric version.
VersionStepExact ==
    (pc = "after_header") => VersionStored(FirstLine)

\* the records of the calls that returned Ok, in call order
AcceptedRecords ==
    LET ok == SelectSeq(calls, LAMBDA c : c.result = "Ok")
    IN [i \in 1..Len(ok) |-> ok[i].record]

\* C13: a successful MSA::push appends the record at the end and leaves the
\* earlier records and their order unchanged, so the records are always in
\* the order of their successful insertion.
C13_AppendsInOrder ==
    /\ \A k \in 1..Len(calls) :
        calls[k].result = "Ok" =>
            calls[k].after.records = Append(calls[k].before.records, calls[k].record)
    /\ pc = "api" => msa.records = AcceptedRecords

\* C13 witness: three records stored, whose names are not in sorted order
C13_Witness ==
    /\ pc = "api"
    /\ len(msa) = 3
    /\ msa.records[1].name = <<"a", "b">>
    /\ msa.records[2].name = <<"b">>
    /\ msa.records[3].name = <<"a">>

\* C14: MSA::push on an empty MSA succeeds for a record of any id and any
\* sequence length; afterwards len() is 1, the record is records[0] and
\* alignment_len() is its sequence length.
C14_FirstPushSucceeds ==
    \A k \in 1..Len(calls) :
        is_empty(calls[k].before) =>
            /\ calls[k].result = "Ok"
            /\ len(calls[k].after) = 1
            /\ calls[k].after.records[1] = calls[k].record
            /\ alignment_len(calls[k].after) = Len(calls[k].record.sequence)

\* C14 witness: a record with a sequence of length 2 pushed on an empty MSA
C14_Witness ==
    /\ pc = "api"
    /\ calls # <<>>
    /\ is_empty(calls[1].before)
    /\ Len(calls[1].record.sequence) = 2
    /\ calls[1].result = "Ok"

\* read_clustal runs sequentially: as long as a statement is left to run, it runs
FairSpec == Spec /\ WF_vars(Next)

\* C15: for every finite source read_clustal eventually ends (here: in any
\* way, a panic included); the blank-line skipping after the header and the
\* main loop both stop when the source is exhausted.
C15_Terminates == <>Ended

\* the ids of the sequence lines read after the header, in line order
SequenceLineIds ==
    LET sl == SelectSeq(Tail(consumed), IsSequenceLine)
    IN [i \in 1..Len(sl) |-> LineId(sl[i])]

\* C16: every sequence line that follows a recognized header adds exactly one
\* record, in line order, whatever the number of blank lines between the
\* header and the first sequence line; none is read and dropped.
C16_NoSequenceLineDropped ==
    (outcome = "Ok" /\ Recognized(FirstLine) /\ WellFormedBody) =>
        get_ids(msa) = SequenceLineIds

\* the main loop reads a blank line in this step
LoopReadsBlankLine ==
    /\ pc = "loop"
    /\ consumed' # consumed
    /\ IsBlankLine(consumed'[Len(consumed')])

\* C17: a blank line met during block iteration is skipped: it leaves the
\* records, the annotations and the column annotations unchanged, and
\* parsing continues with the next line.
C17_BlankLineSkipped ==
    [][LoopReadsBlankLine =>
        /\ msa'.records = msa.records
        /\ msa'.annotations = msa.annotations
        /\ msa'.column_annotations = msa.column_annotations
        /\ pc' = "loop"
        /\ outcome' = "Running"]_vars

(***************************************************************************)
(* A record.rs Record driven directly by push_seq and push_record calls.   *)
(***************************************************************************)
RecordIds == {<<>>, <<"x">>, <<"y", "z">>}
RecordStrings == {<<>>, <<"A">>, <<"C", "G">>}

InitRecord ==
    /\ pc = "record"
    /\ rec \in {Record_rs_default}
                \cup {Record_rs_new(i, q) : i \in RecordIds, q \in RecordStrings}
    /\ recCalls = <<>>
    /\ msa = MSA_default
    /\ calls = <<>>
    /\ ReaderIdle

\* one call rec.push_seq(string)
PushSeq ==
    /\ pc = "record"
    /\ Len(recCalls) < MaxRecordCalls
    /\ \E string \in RecordStrings :
        /\ rec' = push_seq(rec, string)
        /\ recCalls' = Append(recCalls, [op |-> "push_seq", before |-> rec,
                                         after |-> push_seq(rec, string)])
    /\ UNCHANGED <<msa, pc, consumed, eof, buf, start, end, consensus_idx, outcome,
                   cause, calls, annotated>>

\* one call rec.push_record(id, seq)
PushRecord ==
    /\ pc = "record"
    /\ Len(recCalls) < MaxRecordCalls
    /\ \E id \in RecordIds, seq \in RecordStrings :
        /\ rec' = push_record(rec, id, seq)
        /\ recCalls' = Append(recCalls, [op |-> "push_record", before |-> rec,
                                         after |-> push_record(rec, id, seq)])
    /\ UNCHANGED <<msa, pc, consumed, eof, buf, start, end, consensus_idx, outcome,
                   cause, calls, annotated>>

NextRecord == PushSeq \/ PushRecord

SpecRecord == InitRecord /\ [][NextRecord]_vars

IsPrefix(p, q) == Len(p) <= Len(q) /\ SubSeq(q, 1, Len(p)) = p

RecordsFromFirst(m, n) ==
    \A i \in 1..Len(m.records) :
        \E j \in 2..n :
            /\ j <= Len(consumed)
            /\ starts_with(consumed[j], m.records[i].name \o <<SP>>)

\* C19: read_clustal returns Ok only in the step that reads a line whose first
\* character is a space; the alignment returned is the one built from the
\* lines read before that line, and no line is read after it.
C19_OkOnlyOnIndentedLine ==
    [][outcome' = "Ok" =>
        IF outcome = "Ok"
        THEN consumed' = consumed /\ msa' = msa
        ELSE /\ consumed' # consumed
             /\ SubSeq(consumed', 1, Len(consumed)) = consumed
             /\ Len(consumed') = Len(consumed) + 1
             /\ consumed'[Len(consumed')][1] = SP
             /\ msa' = msa
             /\ RecordsFromFirst(msa', Len(consumed))]_vars

\* C19 witness: Ok returned with two records, right after an indented line
C19_Witness ==
    /\ outcome = "Ok"
    /\ pc = "done"
    /\ len(msa) = 2
    /\ IsIndented(LastLine)

\* C20: within one parse consensus_idx starts at 1 and grows by one for every
\* line the main loop processes, sequence lines included, so every
\* add_column_annotation call is keyed above all earlier ones and no
\* column-annotation entry is written twice.
C20_KeysIncrease ==
    /\ consensus_idx = 1 + Len(msa.records) + Len(annotated)
    /\ \A i \in 1..Len(annotated) : 1 <= annotated[i] /\ annotated[i] < consensus_idx
    /\ \A i, j \in 1..Len(annotated) :
        i < j =>
            /\ annotated[i] < annotated[j]
            /\ to_string(annotated[i]) # to_string(annotated[j])

\* C20 witness: two add_column_annotation calls with a sequence line between
\* them, keyed 1 and 3
C20_Witness ==
    /\ annotated = <<1, 3>>
    /\ len(msa) = 1
    /\ consensus_idx = 4

====
